---- MODULE Spec2Model ----
(***************************************************************************)
(* kube-shedder: the in-flight counter, the two-tier admission decision    *)
(* of Shedder.Middleware, the shed response and the deferred release.      *)
(*                                                                         *)
(* Each request is one goroutine running the handler that Middleware       *)
(* returns.  The goroutine touches shared state in two places only, the    *)
(* atomic Add(1) on entry and the deferred atomic Add(-1) on exit;         *)
(* everything between is local to the request, so the steps of a request   *)
(* are: the increment together with the admission decision (one action    *)
(* per branch of the code), the downstream handler returning or panicking, *)
(* and Release (the deferred decrement).                                   *)
(***************************************************************************)
EXTENDS Integers, Sequences, FiniteSets

(* ------------------------------ bounds -------------------------------- *)

\* Number of requests that may enter Middleware in one run; request r is the
\* r-th to arrive.
NumReqs == 3

\* Largest HardLimit a Config is built with; SoftLimit ranges from -1 up to
\* it, so it is disabled, below, at, or above the HardLimit.
MaxHard == 2

Reqs == 1..NumReqs

\* ShedReason values from -MaxReason to MaxReason are rendered.
MaxReason == 2

\* Requests that arrive at the second Shedder of the process.
MaxOther == 2

(* ------------------------ constants of the code ------------------------ *)

ShedReasonHardLimit == 0

ShedReasonSoftLimit == 1

StatusServiceUnavailable == 503

\* A nil function value / nil *HeaderMatcher.
Nil == "nil"

\* The header values a request may carry under the matcher's header name;
\* NoHeader is a request that does not carry the header at all.
NoHeader == "<absent>"

HeaderValues == {"low", ""}

\* The Value field of the HeaderMatcher configurations explored.
MatcherValues == {"low", ""}

\* Seeded fault: a table lookup with the index clamped, no default.
ShedReasonString_Clamped(r) ==
    IF r <= ShedReasonHardLimit THEN "hard_limit" ELSE "soft_limit"

\* Seeded fault: the two reason strings exchanged.
ShedReasonString_Swapped(r) ==
    CASE r = ShedReasonHardLimit -> "soft_limit"
      [] r = ShedReasonSoftLimit -> "hard_limit"
      [] OTHER -> "unknown"

\* ShedReason.String()
ShedReasonString(r) ==
    CASE r = ShedReasonHardLimit -> "hard_limit"
      [] r = ShedReasonSoftLimit -> "soft_limit"
      [] OTHER -> "unknown"

\* http.Header.Get: the first value under the name, "" when there is none.
HeaderGet(h) == IF h = NoHeader THEN "" ELSE h

(* ------------------------------- state --------------------------------- *)

VARIABLES
    cfg,        \* the Config handed to New
    s,          \* the Shedder's immutable fields as New set them
    inflight,   \* Shedder.inflight (atomic.Int64)
    pc,         \* where each request's goroutine is
    current,    \* the local `current`: what the request's increment returned
    header,     \* the header the request carries under the matcher's name,
                \* known once the request reaches the soft tier
    policy,     \* what s.shedDecider(r) did for the request
    outcome,    \* the branch the request took through Middleware
    notified,   \* the reasons onShed was called with for the request
    written,    \* the response Shedder.shed wrote for the request
    hist,       \* the request's events, in program order
    ctor,       \* how the call of New / NewWithLimits ended
    probe,      \* the last query or probe answered, and its answer
    other       \* a second Shedder of the same process

vars == <<cfg, s, inflight, pc, current, header, policy, outcome, notified,
          written, hist, ctor, probe, other>>

\* Every Config with the given limits.
AllConfigsWith(hards, softs) ==
    [HardLimit : hards,
     SoftLimit : softs,
     ShedDecider : {Nil, "programmable"},
     ShedHeader : {Nil} \cup MatcherValues,
     OnShed : {Nil, "callback"}]

\* The Configs with the given limits that set at most one of ShedDecider and
\* ShedHeader; those that set both are explored by SpecBoth.
ConfigsWith(hards, softs) ==
    {c \in AllConfigsWith(hards, softs) :
        c.ShedDecider = Nil \/ c.ShedHeader = Nil}

Configs == ConfigsWith(1..MaxHard, (-1)..MaxHard)

\* Seeded fault: the header matcher is looked at first.
New_MatcherFirst(c) ==
    [hardLimit |-> c.HardLimit,
     softLimit |-> c.SoftLimit,
     onShed |-> c.OnShed,
     shedDecider |-> IF c.ShedHeader # Nil THEN "header"
                     ELSE IF c.ShedDecider # Nil THEN "programmable"
                     ELSE Nil]

\* New: the Shedder built from a Config; the decider is the programmable one
\* when given, else the header closure when a matcher is given, else nil.
New(c) ==
    [hardLimit |-> c.HardLimit,
     softLimit |-> c.SoftLimit,
     onShed |-> c.OnShed,
     shedDecider |-> IF c.ShedDecider # Nil THEN "programmable"
                     ELSE IF c.ShedHeader # Nil THEN "header"
                     ELSE Nil]

NoResponse == [status |-> 0, retryAfter |-> "", shedReason |-> ""]

\* No query or probe answered yet.  kind names the call, at is the counter
\* value (or the argument) it read, result / status / body are its answer.
NoProbe == [kind |-> "none", at |-> 0, result |-> "", status |-> 0, body |-> ""]

\* No second Shedder constructed.
NoOther == [hardLimit |-> 0, inflight |-> 0, entered |-> 0, left |-> 0]

\* The Shedder New returns for a Config of C, and no request arrived yet.
InitWith(C) ==
    /\ cfg \in C
    /\ s = New(cfg)
    /\ inflight = 0
    /\ pc = [r \in Reqs |-> "idle"]
    /\ current = [r \in Reqs |-> 0]
    /\ header = [r \in Reqs |-> "unread"]
    /\ policy = [r \in Reqs |-> "unasked"]
    /\ outcome = [r \in Reqs |-> "none"]
    /\ notified = [r \in Reqs |-> << >>]
    /\ written = [r \in Reqs |-> NoResponse]
    /\ hist = [r \in Reqs |-> << >>]
    /\ ctor = "built"
    /\ probe = NoProbe
    /\ other = NoOther

Init == InitWith(Configs)

(* ------------------------------ counter -------------------------------- *)

\* Seeded fault: the decrement is applied twice.
decrement_Twice(v) == v - 2

\* Seeded fault: the decrement is lost.
decrement_Lost(v) == v

\* atomic.Int64.Add(1) / Add(-1): the new value.
increment(v) == v + 1

decrement(v) == v - 1

(* --------------------------- the decision ------------------------------ *)

\* Seeded fault: the hard limit compared with >= instead of >.
OverHardLimit_AtLimit(n) == n >= s.hardLimit

\* Seeded fault: the hard limit checked against the count before the increment.
OverHardLimit_BeforeIncrement(n) == n - 1 > s.hardLimit

\* Seeded fault: the hard-limit check does not come first, so a count over
\* the hard limit falls into the soft tier.
OverHardLimit_NotFirst(n) == FALSE

\* middleware.go:25
OverHardLimit(n) == n > s.hardLimit

\* Seeded fault: the soft limit compared with >= instead of >.
OverSoftLimit_AtLimit(n) == s.softLimit > 0 /\ n >= s.softLimit

\* middleware.go:31
OverSoftLimit(n) == s.softLimit > 0 /\ n > s.softLimit

\* Seeded fault: the nil check on the decider is missing.
ConsultsDecider_NoNilCheck(n) == OverSoftLimit(n)

\* middleware.go:31-32: the decider is called when the soft limit is
\* exceeded and a decider is set.
ConsultsDecider(n) == OverSoftLimit(n) /\ s.shedDecider # Nil

\* The answers s.shedDecider(r) can give for a request carrying header h:
\* the header closure compares, the programmable decider is any predicate
\* of the caller's and may panic, calling a nil function panics.
DeciderAnswers(h) ==
    CASE s.shedDecider = "header" ->
             {IF HeaderGet(h) = cfg.ShedHeader THEN "true" ELSE "false"}
      [] s.shedDecider = "programmable" -> {"true", "false", "panic"}
      [] OTHER -> {"panic"}

\* Whether onShed, when called, returns; nil is never called.
NotifierResults == IF s.onShed = Nil THEN {"skipped"} ELSE {"returned", "panic"}

\* The response headers and status Shedder.shed writes.
ShedResponse(reason) ==
    [status |-> StatusServiceUnavailable,
     retryAfter |-> "1",
     shedReason |-> ShedReasonString(reason)]

\* Seeded fault: the response is written before onShed is called.
ShedEvents_WriteFirst(res) ==
    CASE res = "skipped" -> <<"write">>
      [] res = "returned" -> <<"write", "onShed">>
      [] res = "panic" -> <<"write", "onShed", "panic">>

\* The events of Shedder.shed, in order.
ShedEvents(res) ==
    CASE res = "skipped" -> <<"write">>
      [] res = "returned" -> <<"onShed", "write">>
      [] res = "panic" -> <<"onShed", "panic">>

\* Seeded fault: the return after s.shed is missing, so the request falls through
\* to next.ServeHTTP.
shed_NoReturn(r, reason, pre) ==
    \E res \in NotifierResults :
        /\ notified' = [notified EXCEPT ![r] =
                           IF res = "skipped" THEN @ ELSE Append(@, reason)]
        /\ written' = [written EXCEPT ![r] =
                           IF res = "panic" THEN @ ELSE ShedResponse(reason)]
        /\ hist' = [hist EXCEPT ![r] =
                           @ \o pre \o ShedEvents(res)
                             \o (IF res = "panic" THEN << >> ELSE <<"next">>)]
        /\ outcome' = [outcome EXCEPT ![r] =
                           IF reason = ShedReasonHardLimit
                           THEN "hard" ELSE "soft"]
        /\ pc' = [pc EXCEPT ![r] =
                           IF res = "panic" THEN "unwinding" ELSE "serving"]

\* Shedder.shed(w, r, reason) followed by the return of middleware.go:27/34,
\* or by the unwinding when onShed panics; pre is the events before the call.
shed(r, reason, pre) ==
    \E res \in NotifierResults :
        /\ notified' = [notified EXCEPT ![r] =
                           IF res = "skipped" THEN @ ELSE Append(@, reason)]
        /\ written' = [written EXCEPT ![r] =
                           IF res = "panic" THEN @ ELSE ShedResponse(reason)]
        /\ hist' = [hist EXCEPT ![r] = @ \o pre \o ShedEvents(res)]
        /\ outcome' = [outcome EXCEPT ![r] =
                           IF reason = ShedReasonHardLimit
                           THEN "hard" ELSE "soft"]
        /\ pc' = [pc EXCEPT ![r] =
                           IF res = "panic" THEN "unwinding" ELSE "returning"]

(* ------------------------------ actions -------------------------------- *)

\* middleware.go:19-22: current := s.increment(); defer s.decrement(), with
\* n the value the increment returns.  The atomic Adds are totally ordered
\* and requests are interchangeable, so request r names the r-th request to
\* perform its increment.
Enter(r, n) ==
    /\ pc[r] = "idle"
    /\ \A q \in Reqs : q < r => pc[q] # "idle"
    /\ inflight' = n
    /\ current' = [current EXCEPT ![r] = n]

\* Between its increment and its call of next.ServeHTTP or its return a
\* request reads only its own locals and the immutable fields of the Shedder,
\* so that stretch of the handler is one step, one action per branch taken.

\* middleware.go:19-28: over the hard limit, shed and return.
RejectHard(r) ==
    LET n == increment(inflight) IN
    /\ Enter(r, n)
    /\ OverHardLimit(n)
    /\ shed(r, ShedReasonHardLimit, <<"increment">>)
    /\ UNCHANGED <<ctor, probe, other, cfg, s, header, policy>>

\* middleware.go:19-36 with the decider consulted: true sheds, false falls
\* through to next.ServeHTTP, a panic unwinds.
SoftTier(r) ==
    LET n == increment(inflight) IN
    /\ Enter(r, n)
    /\ ~OverHardLimit(n)
    /\ ConsultsDecider(n)
    /\ \E h \in HeaderValues \cup {NoHeader} :
         \E ans \in DeciderAnswers(h) :
            /\ header' = [header EXCEPT ![r] =
                             IF cfg.ShedHeader # Nil THEN h ELSE @]
            /\ policy' = [policy EXCEPT ![r] = ans]
            /\ CASE ans = "true" ->
                      shed(r, ShedReasonSoftLimit, <<"increment", "decider">>)
                 [] ans = "false" ->
                      /\ pc' = [pc EXCEPT ![r] = "serving"]
                      /\ outcome' = [outcome EXCEPT ![r] = "accepted"]
                      /\ hist' = [hist EXCEPT ![r] =
                                     <<"increment", "decider", "next">>]
                      /\ UNCHANGED <<notified, written>>
                 [] ans = "panic" ->
                      /\ pc' = [pc EXCEPT ![r] = "unwinding"]
                      /\ outcome' = [outcome EXCEPT ![r] = "aborted"]
                      /\ hist' = [hist EXCEPT ![r] =
                                     <<"increment", "decider", "panic">>]
                      /\ UNCHANGED <<notified, written>>
    /\ UNCHANGED <<ctor, probe, other, cfg, s>>

\* middleware.go:19-39 reaching next.ServeHTTP without consulting a decider:
\* within the soft limit, soft tier disabled, or no decider configured.
Accept(r) ==
    LET n == increment(inflight) IN
    /\ Enter(r, n)
    /\ ~OverHardLimit(n)
    /\ ~ConsultsDecider(n)
    /\ pc' = [pc EXCEPT ![r] = "serving"]
    /\ outcome' = [outcome EXCEPT ![r] = "accepted"]
    /\ hist' = [hist EXCEPT ![r] = <<"increment", "next">>]
    /\ UNCHANGED <<ctor, probe, other, cfg, s, header, policy, notified, written>>

\* next.ServeHTTP returns.
ServeReturn(r) ==
    /\ pc[r] = "serving"
    /\ pc' = [pc EXCEPT ![r] = "returning"]
    /\ hist' = [hist EXCEPT ![r] = Append(@, "return")]
    /\ UNCHANGED <<ctor, probe, other, cfg, s, inflight, current, header, policy, outcome,
                   notified, written>>

\* next.ServeHTTP panics.
ServePanic(r) ==
    /\ pc[r] = "serving"
    /\ pc' = [pc EXCEPT ![r] = "unwinding"]
    /\ hist' = [hist EXCEPT ![r] = Append(@, "panic")]
    /\ UNCHANGED <<ctor, probe, other, cfg, s, inflight, current, header, policy, outcome,
                   notified, written>>

\* Seeded fault: the decrement is a plain call at the end of the handler function
\* instead of a deferred one, so a panic skips it.
Release_NotDeferred(r) ==
    /\ pc[r] \in {"returning", "unwinding"}
    /\ inflight' = IF pc[r] = "returning" THEN decrement(inflight) ELSE inflight
    /\ pc' = [pc EXCEPT ![r] = IF pc[r] = "returning" THEN "done" ELSE "panicked"]
    /\ hist' = [hist EXCEPT ![r] =
                    IF pc[r] = "returning" THEN Append(@, "decrement") ELSE @]
    /\ UNCHANGED <<ctor, probe, other, cfg, s, current, header, policy, outcome, notified, written>>

\* Seeded fault: the decrement is registered after the limit checks, so a
\* rejected request returns without giving its unit back.
Release_RejectedSkips(r) ==
    /\ pc[r] \in {"returning", "unwinding"}
    /\ inflight' = IF outcome[r] \in {"hard", "soft"}
                   THEN inflight ELSE decrement(inflight)
    /\ pc' = [pc EXCEPT ![r] = IF pc[r] = "returning" THEN "done" ELSE "panicked"]
    /\ hist' = [hist EXCEPT ![r] = Append(@, "decrement")]
    /\ UNCHANGED <<ctor, probe, other, cfg, s, current, header, policy, outcome, notified, written>>

\* Seeded fault: the handler returns only once the counter is back within
\* the hard limit, so a rejected request waits for accepted ones to leave.
Release_WaitsForCapacity(r) ==
    /\ pc[r] \in {"returning", "unwinding"}
    /\ inflight <= s.hardLimit
    /\ inflight' = decrement(inflight)
    /\ pc' = [pc EXCEPT ![r] = IF pc[r] = "returning" THEN "done" ELSE "panicked"]
    /\ hist' = [hist EXCEPT ![r] = Append(@, "decrement")]
    /\ UNCHANGED <<ctor, probe, other, cfg, s, current, header, policy, outcome, notified, written>>

\* middleware.go:22: the deferred decrement runs as the handler function
\* returns or unwinds; a panic then propagates to the caller.
Release(r) ==
    /\ pc[r] \in {"returning", "unwinding"}
    /\ inflight' = decrement(inflight)
    /\ pc' = [pc EXCEPT ![r] = IF pc[r] = "returning" THEN "done" ELSE "panicked"]
    /\ hist' = [hist EXCEPT ![r] = Append(@, "decrement")]
    /\ UNCHANGED <<ctor, probe, other, cfg, s, current, header, policy, outcome, notified, written>>

Next ==
    \E r \in Reqs :
        \/ RejectHard(r)
        \/ SoftTier(r)
        \/ Accept(r)
        \/ ServeReturn(r)
        \/ ServePanic(r)
        \/ Release(r)

Spec == Init /\ [][Next]_vars

(* ------------- every handler that was entered terminates --------------- *)

\* net/http runs each handler on a goroutine of its own and the Go scheduler
\* lets every runnable goroutine run: a downstream handler that terminates
\* does so eventually (returning or panicking), and a handler function that
\* returns or unwinds runs its deferred call.  Arrivals are not forced.
Fairness ==
    \A r \in Reqs :
        /\ WF_vars(ServeReturn(r) \/ ServePanic(r))
        /\ WF_vars(Release(r))

SpecLive == Init /\ [][Next]_vars /\ Fairness

(* --------- every accepted downstream handler blocks forever ------------ *)

\* No accepted handler ever returns or panics; the other steps are those of
\* Middleware.
NextBlockedForever ==
    \E r \in Reqs :
        \/ RejectHard(r)
        \/ SoftTier(r)
        \/ Accept(r)
        \/ Release(r)

\* A handler function that returns or unwinds runs its deferred call.
FairRelease == \A r \in Reqs : WF_vars(Release(r))

SpecBlockedForever == Init /\ [][NextBlockedForever]_vars /\ FairRelease

(* ---- blocking handlers: every accepted handler waits for all requests --- *)

\* Every request has made its admission decision.
AllDecided == \A r \in Reqs : outcome[r] # "none"

\* Soft shedding disabled (SoftLimit <= 0); hard limits below, at and above
\* the number of requests.
InitBarrier == InitWith(ConfigsWith(1..(NumReqs + 1), {-1, 0}))

\* The downstream handler of integration_test.go blocks on a channel that is
\* closed once all requests have been answered or are inside the handler.
BlockedReturn(r) == AllDecided /\ ServeReturn(r)

BlockedPanic(r) == AllDecided /\ ServePanic(r)

NextBarrier ==
    \E r \in Reqs :
        \/ RejectHard(r)
        \/ Accept(r)
        \/ BlockedReturn(r)
        \/ BlockedPanic(r)
        \/ Release(r)

SpecBarrier == InitBarrier /\ [][NextBarrier]_vars

(* ------------------------- queries and probes -------------------------- *)

StatusOK == 200

\* A Go bool as the probe record holds it.
BoolString(b) == IF b THEN "true" ELSE "false"

\* Seeded fault: overload reported at the limit already.
IsOverloaded_AtLimit(v) == v >= s.hardLimit

\* Shedder.IsOverloaded, with v the value s.inflight.Load() returns.
IsOverloaded(v) == v > s.hardLimit

\* Seeded fault: the upper end of the soft band is not checked.
IsSoftOverloaded_NoUpperEnd(v) ==
    IF s.softLimit <= 0 THEN FALSE ELSE v > s.softLimit

\* Shedder.IsSoftOverloaded, with v the value s.inflight.Load() returns.
IsSoftOverloaded(v) ==
    IF s.softLimit <= 0 THEN FALSE
    ELSE v > s.softLimit /\ v <= s.hardLimit

\* Seeded fault: once not ready, the handler stays not ready until the
\* counter is strictly below the limit.
ReadyStatus_Hysteresis(v) ==
    IF v > s.hardLimit \/ (probe.status = StatusServiceUnavailable
                             /\ v >= s.hardLimit)
    THEN StatusServiceUnavailable ELSE StatusOK

\* ReadyHandler: the status for the value v that s.Inflight() returned.
ReadyStatus(v) ==
    IF v > s.hardLimit THEN StatusServiceUnavailable ELSE StatusOK

\* ReadyHandler: the word the body starts with; the body goes on with v and
\* the hard limit.
ReadyBody(v) == IF v > s.hardLimit THEN "not ready" ELSE "ready"

\* Seeded fault: the liveness handler answers like the readiness handler.
HealthResponse_ChecksLoad ==
    IF inflight > s.hardLimit
    THEN [status |-> StatusServiceUnavailable, body |-> "not ready"]
    ELSE [status |-> StatusOK, body |-> "ok"]

\* HealthHandler: the status and body it writes.
HealthResponse == [status |-> StatusOK, body |-> "ok"]

\* Seeded fault: the probe handlers are wrapped in the Middleware, so a
\* probe takes a unit of the counter.
Answer_Counted(p) ==
    /\ probe' = p
    /\ inflight' = increment(inflight)
    /\ UNCHANGED <<cfg, s, pc, current, header, policy, outcome,
                   notified, written, hist, ctor, other>>

\* A query or probe answers and nothing else changes.
Answer(p) ==
    /\ probe' = p
    /\ UNCHANGED <<cfg, s, inflight, pc, current, header, policy, outcome,
                   notified, written, hist, ctor, other>>

\* A caller invokes s.IsOverloaded().
IsOverloadedCall ==
    Answer([kind |-> "IsOverloaded", at |-> inflight,
            result |-> BoolString(IsOverloaded(inflight)),
            status |-> 0, body |-> ""])

\* A caller invokes s.IsSoftOverloaded().
IsSoftOverloadedCall ==
    Answer([kind |-> "IsSoftOverloaded", at |-> inflight,
            result |-> BoolString(IsSoftOverloaded(inflight)),
            status |-> 0, body |-> ""])

\* The orchestrator queries the readiness handler: one Load, then the
\* status and the body from the value loaded.
ReadyProbe ==
    Answer([kind |-> "ready", at |-> inflight, result |-> "",
            status |-> ReadyStatus(inflight), body |-> ReadyBody(inflight)])

\* The orchestrator queries the liveness handler.
HealthProbe ==
    Answer([kind |-> "health", at |-> 0, result |-> "",
            status |-> HealthResponse.status, body |-> HealthResponse.body])

\* The queries read the limits and the counter only, so they are explored
\* on Shedders without callbacks, where no decider is ever consulted.
ProbeConfigs ==
    {c \in Configs :
        c.ShedDecider = Nil /\ c.ShedHeader = Nil /\ c.OnShed = Nil}

InitProbes == InitWith(ProbeConfigs)

NextProbes ==
    \/ \E r \in Reqs :
          \/ RejectHard(r)
          \/ Accept(r)
          \/ ServeReturn(r)
          \/ ServePanic(r)
          \/ Release(r)
    \/ IsOverloadedCall
    \/ IsSoftOverloadedCall
    \/ ReadyProbe
    \/ HealthProbe

SpecProbes == InitProbes /\ [][NextProbes]_vars

\* A caller invokes s.Inflight(): the value loaded is the answer.
InflightCall ==
    Answer([kind |-> "Inflight", at |-> inflight, result |-> "",
            status |-> 0, body |-> ""])

\* All five reads, concurrent with requests.
NextReads ==
    \/ NextProbes
    \/ InflightCall

SpecReads == InitProbes /\ [][NextReads]_vars

(* ------------- the readiness handler, statement by statement ----------- *)

\* Seeded fault: the body is formatted from a second s.Inflight() call.
PrintedInflight_Reloaded(loaded, now) == now

\* part_001:21/27: the value printed after "inflight=" is the local the
\* handler loaded at line 16, whatever the counter is now.
PrintedInflight(loaded, now) == loaded

\* part_001:16: inflight := s.Inflight().
ReadyLoad ==
    Answer([kind |-> "ready.loaded", at |-> inflight, result |-> "",
            status |-> 0, body |-> ""])

\* part_001:18-27: status and body from the local; requests may have
\* entered or left since the load.  result records whether the counter
\* still has the value loaded.
ReadyWrite ==
    /\ probe.kind = "ready.loaded"
    /\ Answer([kind |-> "ready.written",
               at |-> PrintedInflight(probe.at, inflight),
               result |-> IF inflight = probe.at THEN "same" ELSE "changed",
               status |-> ReadyStatus(probe.at),
               body |-> ReadyBody(probe.at)])

NextReady ==
    \/ \E r \in Reqs :
          \/ RejectHard(r)
          \/ Accept(r)
          \/ ServeReturn(r)
          \/ ServePanic(r)
          \/ Release(r)
    \/ ReadyLoad
    \/ ReadyWrite

SpecReady == InitProbes /\ [][NextReady]_vars

(* --------------------- two Shedders in one process --------------------- *)

\* Seeded fault: the counter is a package-level variable, so an Add through
\* one Shedder moves the value every Shedder reads.
PeerInflight_Shared(v, d) == v + d

\* inflight is a field of the Shedder struct and the package declares no
\* variable: v, the counter of one Shedder, after an Add(d) on the counter
\* of another Shedder.
PeerInflight(v, d) == v

\* Neither Shedder has callbacks or a soft limit; each has a hard limit
\* of its own.
InitTwo ==
    /\ cfg \in {c \in ProbeConfigs : c.SoftLimit = 0}
    /\ s = New(cfg)
    /\ inflight = 0
    /\ pc = [r \in Reqs |-> "idle"]
    /\ current = [r \in Reqs |-> 0]
    /\ header = [r \in Reqs |-> "unread"]
    /\ policy = [r \in Reqs |-> "unasked"]
    /\ outcome = [r \in Reqs |-> "none"]
    /\ notified = [r \in Reqs |-> << >>]
    /\ written = [r \in Reqs |-> NoResponse]
    /\ hist = [r \in Reqs |-> << >>]
    /\ ctor = "built"
    /\ probe = NoProbe
    /\ \E h \in 1..MaxHard :
          other = [hardLimit |-> h, inflight |-> 0, entered |-> 0, left |-> 0]

\* A request enters the Middleware of the second Shedder: its increment.
OtherEnter ==
    /\ other.entered < MaxOther
    /\ other' = [other EXCEPT !.inflight = increment(@),
                              !.entered = @ + 1]
    /\ inflight' = PeerInflight(inflight, 1)
    /\ UNCHANGED <<cfg, s, pc, current, header, policy, outcome, notified,
                   written, hist, ctor, probe>>

\* A request leaves the Middleware of the second Shedder: its deferred
\* decrement, whatever the decision was.
OtherLeave ==
    /\ other.left < other.entered
    /\ other' = [other EXCEPT !.inflight = decrement(@),
                              !.left = @ + 1]
    /\ inflight' = PeerInflight(inflight, -1)
    /\ UNCHANGED <<cfg, s, pc, current, header, policy, outcome, notified,
                   written, hist, ctor, probe>>

\* A caller invokes IsOverloaded() on the second Shedder.
OtherIsOverloadedCall ==
    Answer([kind |-> "other.IsOverloaded", at |-> other.inflight,
            result |-> BoolString(other.inflight > other.hardLimit),
            status |-> 0, body |-> ""])

NextTwo ==
    \/ \E r \in Reqs :
          \/ RejectHard(r)
          \/ Accept(r)
          \/ ServeReturn(r)
          \/ ServePanic(r)
          \/ Release(r)
    \/ IsOverloadedCall
    \/ OtherEnter
    \/ OtherLeave
    \/ OtherIsOverloadedCall

SpecTwo == InitTwo /\ [][NextTwo]_vars

(* -------------------------- ShedReason.String -------------------------- *)

\* The ShedReason values rendered: the declared ones and integers around.
ReasonValues == (-MaxReason)..MaxReason

\* A caller renders a ShedReason value.
StringCall ==
    \E v \in ReasonValues :
        Answer([kind |-> "String", at |-> v, result |-> "", status |-> 0,
                body |-> ShedReasonString(v)])

SpecString == Init /\ [][StringCall]_vars

(* ------------- both a programmable decider and a matcher -------------- *)

\* The Configs that set ShedDecider and ShedHeader both; the notifier has
\* no part in the choice of the decider and is left out.
BothConfigs ==
    {c \in AllConfigsWith(1..MaxHard, (-1)..MaxHard) :
        c.ShedDecider # Nil /\ c.ShedHeader # Nil /\ c.OnShed = Nil}

InitBoth == InitWith(BothConfigs)

SpecBoth == InitBoth /\ [][Next]_vars

(* ---------------------------- construction ---------------------------- *)

\* The Configs a caller may hand to New, valid or not.
AnyConfigs == ConfigsWith((-1)..MaxHard, (-1)..MaxHard)

\* No Shedder: what the caller holds before New returns, and for good when
\* New panics.
NoShedder ==
    [hardLimit |-> 0, softLimit |-> 0, onShed |-> Nil, shedDecider |-> Nil]

\* Before the constructor is called: a Config chosen, no Shedder, no counter.
InitNew ==
    /\ cfg \in AnyConfigs
    /\ s = NoShedder
    /\ inflight = -1
    /\ pc = [r \in Reqs |-> "idle"]
    /\ current = [r \in Reqs |-> 0]
    /\ header = [r \in Reqs |-> "unread"]
    /\ policy = [r \in Reqs |-> "unasked"]
    /\ outcome = [r \in Reqs |-> "none"]
    /\ notified = [r \in Reqs |-> << >>]
    /\ written = [r \in Reqs |-> NoResponse]
    /\ hist = [r \in Reqs |-> << >>]
    /\ ctor = "pending"
    /\ probe = NoProbe
    /\ other = NoOther

\* Seeded fault: only a negative HardLimit is refused.
InvalidHardLimit_NegativeOnly(c) == c.HardLimit < 0

\* New: the check that makes it panic.
InvalidHardLimit(c) == c.HardLimit <= 0

\* The Config NewWithLimits hands to New.
NewWithLimitsConfig(hardLimit, softLimit) ==
    [HardLimit |-> hardLimit,
     SoftLimit |-> softLimit,
     ShedDecider |-> Nil,
     ShedHeader |-> Nil,
     OnShed |-> Nil]

\* New(c): panics for an invalid HardLimit, else returns the Shedder with
\* the zero value of its counter.
Construct(c) ==
    /\ ctor = "pending"
    /\ IF InvalidHardLimit(c)
       THEN /\ ctor' = "panicked"
            /\ UNCHANGED <<s, inflight>>
       ELSE /\ ctor' = "built"
            /\ s' = New(c)
            /\ inflight' = 0
    /\ UNCHANGED <<cfg, pc, current, header, policy, outcome, notified,
                   written, hist, probe, other>>

\* The caller calls New(cfg).
CallNew == Construct(cfg)

\* The caller calls NewWithLimits(cfg.HardLimit, cfg.SoftLimit).
CallNewWithLimits ==
    Construct(NewWithLimitsConfig(cfg.HardLimit, cfg.SoftLimit))

NextNew == CallNew \/ CallNewWithLimits

SpecNew == InitNew /\ [][NextNew]_vars

(* --------------------------- bookkeeping ------------------------------- *)

\* Number of occurrences of event e in a request's history.
Occ(h, e) == Cardinality({i \in DOMAIN h : h[i] = e})

\* Position of the first occurrence of e in h (0 when there is none).
Pos(h, e) ==
    IF \E i \in DOMAIN h : h[i] = e
    THEN CHOOSE i \in DOMAIN h : h[i] = e /\ \A j \in 1..(i - 1) : h[j] # e
    ELSE 0

RECURSIVE TotalUpTo(_, _)
TotalUpTo(e, n) == IF n = 0 THEN 0 ELSE Occ(hist[n], e) + TotalUpTo(e, n - 1)

\* Number of occurrences of event e over all requests.
Total(e) == TotalUpTo(e, NumReqs)

Finished(r) == pc[r] \in {"done", "panicked"}

Rejected(r) == outcome[r] \in {"hard", "soft"}

Min(a, b) == IF a < b THEN a ELSE b

Max(a, b) == IF a > b THEN a ELSE b

(* ------------------------------ claims --------------------------------- *)

\* C1: in every reachable state the in-flight counter equals the number of
\* increments performed minus the number of decrements performed; none is
\* lost and none is applied twice.
C1_CounterIsIncrementsMinusDecrements ==
    inflight = Total("increment") - Total("decrement")

\* C1 witness: three increments and one decrement have happened and two
\* requests are still between their increment and their decrement.
C1_Witness ==
    /\ Total("increment") = 3
    /\ Total("decrement") = 1
    /\ inflight = 2
    /\ Cardinality({r \in Reqs : pc[r] \notin {"idle", "done", "panicked"}}) = 2

\* C2: every request that entered performs exactly one decrement, after its
\* own increment and as the last thing it does, on every exit path (normal
\* return, downstream panic, hard rejection, soft rejection); before its
\* handling has ended it has not decremented; and once every request that
\* entered has left, the counter is back at the value it started from.
C2_ExactlyOneReleasePerRequest ==
    /\ \A r \in Reqs :
          /\ Occ(hist[r], "increment") = (IF pc[r] = "idle" THEN 0 ELSE 1)
          /\ Occ(hist[r], "decrement") = (IF Finished(r) THEN 1 ELSE 0)
          /\ Finished(r) =>
                /\ hist[r][1] = "increment"
                /\ hist[r][Len(hist[r])] = "decrement"
                /\ outcome[r] # "none"
    /\ (\A r \in Reqs : pc[r] = "idle" \/ Finished(r)) => inflight = 0

\* C2 witness: one request was accepted and its handler panicked, one was
\* rejected for the hard limit, one for the soft limit; all three have
\* released and the counter is 0 again.
C2_Witness ==
    /\ \E r \in Reqs : /\ pc[r] = "panicked"
                       /\ outcome[r] = "accepted"
                       /\ Occ(hist[r], "panic") = 1
    /\ \E r \in Reqs : pc[r] = "done" /\ outcome[r] = "hard"
    /\ \E r \in Reqs : pc[r] = "done" /\ outcome[r] = "soft"
    /\ \A r \in Reqs : Finished(r)
    /\ inflight = 0

\* C3: a request is rejected with reason HardLimit if and only if the value
\* its own increment returned is strictly greater than hardLimit; at exactly
\* hardLimit it is not.
C3_HardRejectIffOverHardLimit ==
    \A r \in Reqs :
        outcome[r] # "none" =>
            (outcome[r] = "hard" <=> current[r] > cfg.HardLimit)

\* C3 witness: one request got exactly hardLimit and was not rejected for
\* the hard limit, another got hardLimit + 1 and was.
C3_Witness ==
    /\ \E r \in Reqs : /\ current[r] = cfg.HardLimit
                       /\ outcome[r] = "accepted"
    /\ \E r \in Reqs : /\ current[r] = cfg.HardLimit + 1
                       /\ outcome[r] = "hard"

\* The request's count lies in the soft band: softLimit > 0 and
\* softLimit < n <= hardLimit.
InSoftBand(r) ==
    /\ cfg.SoftLimit > 0
    /\ cfg.SoftLimit < current[r]
    /\ current[r] <= cfg.HardLimit

\* C4: a request in the soft band is rejected with reason SoftLimit if and
\* only if the decision policy returned true for it; if the policy returned
\* false it is accepted and reaches the downstream handler; a request whose
\* increment returned softLimit or less is never soft-shed.
C4_SoftRejectIffPolicyTrue ==
    \A r \in Reqs :
        outcome[r] # "none" =>
            /\ outcome[r] = "soft" <=> (InSoftBand(r) /\ policy[r] = "true")
            /\ (InSoftBand(r) /\ policy[r] = "false") =>
                   (outcome[r] = "accepted" /\ Occ(hist[r], "next") = 1)
            /\ (InSoftBand(r) /\ s.shedDecider # Nil) => policy[r] # "unasked"
            /\ current[r] <= cfg.SoftLimit => outcome[r] # "soft"

\* C4 witness: two requests in the soft band, one shed because the policy
\* said true, one accepted because it said false; and a request at exactly
\* softLimit that was accepted.
C4_Witness ==
    /\ \E r \in Reqs : /\ InSoftBand(r)
                       /\ policy[r] = "true"
                       /\ outcome[r] = "soft"
    /\ \E r \in Reqs : /\ InSoftBand(r)
                       /\ policy[r] = "false"
                       /\ outcome[r] = "accepted"
    /\ \E r \in Reqs : /\ cfg.SoftLimit > 0
                       /\ current[r] = cfg.SoftLimit
                       /\ outcome[r] = "accepted"

\* The requests that are inside the downstream handler.
Serving == {r \in Reqs : pc[r] = "serving"}

\* C5: the number of requests simultaneously inside the downstream handler
\* never exceeds hardLimit.
C5_ServingAtMostHardLimit == Cardinality(Serving) <= cfg.HardLimit

\* C5 witness: hardLimit requests are inside the downstream handler while a
\* further request, rejected for the hard limit, has not yet released.
C5_Witness ==
    /\ cfg.HardLimit = 2
    /\ Cardinality(Serving) = 2
    /\ \E r \in Reqs : outcome[r] = "hard" /\ pc[r] = "returning"

\* The requests accepted / rejected for the hard limit so far.
AcceptedSet == {r \in Reqs : outcome[r] = "accepted"}

HardRejectedSet == {r \in Reqs : outcome[r] = "hard"}

\* C6: from counter 0 with soft shedding disabled, when NumReqs requests
\* enter and every accepted handler blocks until all of them have decided,
\* exactly min(NumReqs, hardLimit) reach the downstream handler and exactly
\* max(0, NumReqs - hardLimit) are rejected with reason HardLimit.
C6_BlockedHandlersAdmitExactlyHardLimit ==
    AllDecided =>
        /\ Cardinality(AcceptedSet) = Min(NumReqs, cfg.HardLimit)
        /\ Cardinality(HardRejectedSet) = Max(0, NumReqs - cfg.HardLimit)
        /\ \A r \in AcceptedSet : Occ(hist[r], "next") = 1

\* C6 witness: hardLimit 2, all requests have decided, two are blocked
\* inside the downstream handler and the rest were rejected for the hard
\* limit.
C6_Witness ==
    /\ cfg.HardLimit = 2
    /\ AllDecided
    /\ Cardinality(Serving) = 2
    /\ Cardinality(HardRejectedSet) = NumReqs - 2
    /\ HardRejectedSet # {}

\* C7: with softLimit > 0 and neither a programmable decider nor a header
\* matcher configured, no request is rejected with reason SoftLimit and every
\* request whose increment returned at most hardLimit is accepted.
C7_NoPolicyNeverSoftSheds ==
    (cfg.SoftLimit > 0 /\ cfg.ShedDecider = Nil /\ cfg.ShedHeader = Nil) =>
        \A r \in Reqs :
            outcome[r] # "none" =>
                /\ outcome[r] # "soft"
                /\ current[r] <= cfg.HardLimit =>
                       (outcome[r] = "accepted" /\ Occ(hist[r], "next") = 1)

\* C7 witness: no policy configured, a request above the soft limit and within
\* the hard limit was accepted.
C7_Witness ==
    /\ cfg.ShedDecider = Nil
    /\ cfg.ShedHeader = Nil
    /\ \E r \in Reqs : InSoftBand(r) /\ outcome[r] = "accepted"

\* C8: the downstream handler is invoked at most once per request, and if
\* and only if the request was accepted; a rejected request never reaches
\* it, and no request has both a rejection response and a downstream call.
C8_DownstreamIffAccepted ==
    \A r \in Reqs :
        /\ Occ(hist[r], "next") <= 1
        /\ Occ(hist[r], "next") = 1 <=> outcome[r] = "accepted"
        /\ Rejected(r) => Occ(hist[r], "next") = 0
        /\ ~(written[r] # NoResponse /\ Occ(hist[r], "next") > 0)

\* C8 witness: one request is rejected with its response written, another
\* is accepted and has come back from the downstream handler.
C8_Witness ==
    /\ \E r \in Reqs : Rejected(r) /\ written[r] # NoResponse /\ pc[r] = "done"
    /\ \E r \in Reqs : /\ outcome[r] = "accepted"
                       /\ Occ(hist[r], "return") = 1
                       /\ pc[r] = "done"

\* The reason a rejected request was rejected for, from its count.
ReasonOf(r) ==
    IF current[r] > cfg.HardLimit THEN ShedReasonHardLimit
    ELSE ShedReasonSoftLimit

RECURSIVE NotifiedUpTo(_)
NotifiedUpTo(n) == IF n = 0 THEN 0 ELSE Len(notified[n]) + NotifiedUpTo(n - 1)

\* C9: with a notifier configured it is invoked exactly once for each
\* rejected request, with the reason of the rejection and before the
\* rejection response is written; never for a request that is not
\* rejected; so the invocations number the rejected requests.
C9_NotifierOncePerRejection ==
    /\ \A r \in Reqs :
          IF cfg.OnShed # Nil /\ Rejected(r)
          THEN /\ notified[r] = <<ReasonOf(r)>>
               /\ Occ(hist[r], "onShed") = 1
               /\ Occ(hist[r], "write") = 1 =>
                      Pos(hist[r], "onShed") < Pos(hist[r], "write")
          ELSE /\ notified[r] = << >>
               /\ Occ(hist[r], "onShed") = 0
    /\ cfg.OnShed # Nil =>
          NotifiedUpTo(NumReqs) = Cardinality({r \in Reqs : Rejected(r)})

\* C9 witness: a notifier is configured; it was called with HardLimit for a
\* hard rejection and with SoftLimit for a soft rejection, each response
\* was written, and an accepted request has finished without a call.
C9_Witness ==
    /\ cfg.OnShed # Nil
    /\ \E r \in Reqs : /\ outcome[r] = "hard"
                       /\ notified[r] = <<ShedReasonHardLimit>>
                       /\ Occ(hist[r], "write") = 1
    /\ \E r \in Reqs : /\ outcome[r] = "soft"
                       /\ notified[r] = <<ShedReasonSoftLimit>>
                       /\ Occ(hist[r], "write") = 1
    /\ \E r \in Reqs : /\ outcome[r] = "accepted"
                       /\ pc[r] = "done"
                       /\ notified[r] = << >>

\* The rejection response the contract prescribes for request r.
ExpectedRejection(r) ==
    [status |-> 503,
     retryAfter |-> "1",
     shedReason |-> IF current[r] > cfg.HardLimit
                    THEN "hard_limit" ELSE "soft_limit"]

\* C10 as stated: every rejected request receives status 503, Retry-After
\* "1" and X-Shed-Reason equal to the string of its reason.
C10_EveryRejectionGetsResponse ==
    \A r \in Reqs : Rejected(r) => written[r] = ExpectedRejection(r)

\* The notifier was called for the request and panicked.
NotifierPanicked(r) ==
    /\ Occ(hist[r], "onShed") = 1
    /\ Occ(hist[r], "panic") = 1

\* C10 amended: every rejected request whose notifier is absent or returns
\* receives status 503, Retry-After "1" and X-Shed-Reason equal to the
\* string of its reason; when the notifier panics Shedder.shed writes no
\* response at all; and a request that is not rejected gets none from shed.
C10_RejectionResponseUnlessNotifierPanics ==
    \A r \in Reqs :
        written[r] = IF Rejected(r) /\ ~NotifierPanicked(r)
                     THEN ExpectedRejection(r)
                     ELSE NoResponse

\* C10 witness: with a notifier configured that returned, a hard rejection
\* and a soft rejection have both been answered, each with its own reason
\* string, status 503 and Retry-After "1".
C10_Witness ==
    /\ cfg.OnShed # Nil
    /\ \E r \in Reqs : /\ outcome[r] = "hard"
                       /\ Occ(hist[r], "write") = 1
                       /\ written[r].shedReason = "hard_limit"
                       /\ written[r].status = 503
                       /\ written[r].retryAfter = "1"
    /\ \E r \in Reqs : /\ outcome[r] = "soft"
                       /\ Occ(hist[r], "write") = 1
                       /\ written[r].shedReason = "soft_limit"
                       /\ written[r].status = 503
                       /\ written[r].retryAfter = "1"

\* C11: IsOverloaded() returns true if and only if the counter value it
\* loads is strictly greater than hardLimit: false at exactly hardLimit, and
\* false again for a call made after decrements brought the counter back.
C11_IsOverloadedIffOverHardLimit ==
    probe.kind = "IsOverloaded" =>
        /\ probe.result \in {"true", "false"}
        /\ probe.result = "true" <=> probe.at > cfg.HardLimit

\* C11 witness: the counter was above hardLimit (a request was rejected for
\* the hard limit and has released), and a call made with the counter back
\* at exactly hardLimit answered false.
C11_Witness ==
    /\ probe.kind = "IsOverloaded"
    /\ probe.result = "false"
    /\ probe.at = cfg.HardLimit
    /\ inflight = cfg.HardLimit
    /\ \E r \in Reqs : outcome[r] = "hard" /\ Finished(r)

\* C12: IsSoftOverloaded() returns true if and only if softLimit > 0 and
\* softLimit < counter <= hardLimit: false at softLimit, true at hardLimit
\* when hardLimit > softLimit, false above hardLimit, false when
\* softLimit <= 0.
C12_IsSoftOverloadedIffInBand ==
    probe.kind = "IsSoftOverloaded" =>
        /\ probe.result \in {"true", "false"}
        /\ probe.result = "true" <=>
               /\ cfg.SoftLimit > 0
               /\ cfg.SoftLimit < probe.at
               /\ probe.at <= cfg.HardLimit

\* C12 witness: with 0 < softLimit < hardLimit a call at counter = hardLimit
\* answered true.
C12_Witness ==
    /\ probe.kind = "IsSoftOverloaded"
    /\ cfg.SoftLimit > 0
    /\ cfg.SoftLimit < cfg.HardLimit
    /\ probe.at = cfg.HardLimit
    /\ probe.result = "true"

\* C13: a readiness query reports 200 if and only if the counter it loads is
\* at most hardLimit and 503 if and only if it is greater, whatever earlier
\* queries answered.
C13_ReadyIffNotOverHardLimit ==
    probe.kind = "ready" =>
        /\ probe.status \in {200, 503}
        /\ probe.status = 200 <=> probe.at <= cfg.HardLimit
        /\ probe.status = 503 <=> probe.at > cfg.HardLimit
        /\ probe.body = (IF probe.at > cfg.HardLimit THEN "not ready"
                         ELSE "ready")

\* C13 witness: the counter was above hardLimit and is back at exactly
\* hardLimit; the query made now reports ready.
C13_Witness ==
    /\ probe.kind = "ready"
    /\ probe.status = 200
    /\ probe.at = cfg.HardLimit
    /\ inflight = cfg.HardLimit
    /\ \E r \in Reqs : outcome[r] = "hard" /\ Finished(r)

\* C14: the liveness query answers 200 with body "ok" in every reachable
\* state, whatever the counter.
C14_HealthAlwaysOk ==
    probe.kind = "health" => (probe.status = 200 /\ probe.body = "ok")

\* C14 witness: the liveness query was answered while the counter is above
\* hardLimit.
C14_Witness ==
    /\ probe.kind = "health"
    /\ probe.status = 200
    /\ inflight > cfg.HardLimit

\* C15: New and NewWithLimits panic and yield no Shedder when
\* hardLimit <= 0; for every hardLimit >= 1 they succeed for any softLimit,
\* softLimit <= 0 included, with the counter 0 and both limits stored as
\* given.
C15_ConstructionFailsIffHardLimitNotPositive ==
    ctor # "pending" =>
        IF cfg.HardLimit <= 0
        THEN /\ ctor = "panicked"
             /\ s = NoShedder
             /\ inflight = -1
        ELSE /\ ctor = "built"
             /\ s.hardLimit = cfg.HardLimit
             /\ s.softLimit = cfg.SoftLimit
             /\ inflight = 0

\* C15 witness: construction with hardLimit = 0 has panicked.
C15_Witness ==
    /\ ctor = "panicked"
    /\ cfg.HardLimit = 0

\* The request carries the matcher's header with exactly the matcher's value.
CarriesMatch(r) == header[r] # NoHeader /\ header[r] = cfg.ShedHeader

\* C16: with a programmable decider and a header matcher both configured,
\* the Shedder's decider is the programmable one and every soft-tier decision
\* follows its answer alone: shed on true, served on false, whether or not
\* the request's header matches.
C16_ProgrammableDeciderTakesPrecedence ==
    (cfg.ShedDecider # Nil /\ cfg.ShedHeader # Nil) =>
        /\ s.shedDecider = "programmable"
        /\ \A r \in Reqs :
              policy[r] # "unasked" =>
                  /\ policy[r] = "true" <=> outcome[r] = "soft"
                  /\ policy[r] = "false" <=> outcome[r] = "accepted"

\* C16 witness: both configured; one request whose header matches was
\* served because the decider answered false, one whose header does not
\* match was shed because the decider answered true.
C16_Witness ==
    /\ cfg.ShedDecider # Nil
    /\ cfg.ShedHeader # Nil
    /\ \E r \in Reqs : /\ CarriesMatch(r)
                       /\ policy[r] = "false"
                       /\ outcome[r] = "accepted"
    /\ \E r \in Reqs : /\ policy[r] = "true"
                       /\ header[r] \notin {"unread", cfg.ShedHeader}
                       /\ outcome[r] = "soft"

\* C17: with a header matcher as the only policy, a request is
\* shed-eligible if and only if it carries the header with exactly the
\* configured value; one that does not carry the header, or carries another
\* value, is not, for every configured value, the empty string included.
C17_MatcherIffCarriesExactValue ==
    (cfg.ShedDecider = Nil /\ cfg.ShedHeader # Nil) =>
        \A r \in Reqs :
            policy[r] # "unasked" =>
                (policy[r] = "true" <=> CarriesMatch(r))

\* C17 restricted to a non-empty configured value, where it holds.
C17_NonEmptyMatcherIffCarriesExactValue ==
    (cfg.ShedDecider = Nil /\ cfg.ShedHeader \notin {Nil, ""}) =>
        \A r \in Reqs :
            policy[r] # "unasked" =>
                (policy[r] = "true" <=> CarriesMatch(r))

\* C18: ShedReason.String() renders HardLimit as "hard_limit", SoftLimit
\* as "soft_limit" and every other integer, negative or above the declared
\* range, as "unknown".
C18_ReasonStrings ==
    probe.kind = "String" =>
        probe.body = (IF probe.at = 0 THEN "hard_limit"
                      ELSE IF probe.at = 1 THEN "soft_limit"
                      ELSE "unknown")

\* C18 witness: a negative value was rendered as "unknown".
C18_Witness ==
    /\ probe.kind = "String"
    /\ probe.at < 0
    /\ probe.body = "unknown"

\* The first Shedder acted: one of its requests took a step.
OwnStep == hist' # hist

\* The second Shedder acted: a request entered or left its Middleware.
OtherStep == other'.entered # other.entered \/ other'.left # other.left

\* A query of the named kind was answered.
Answered(kind) == probe' # probe /\ probe'.kind = kind

\* C19: two Shedders in one process do not interfere.  A request, a release
\* or a query on one leaves the counter and the limits of the other as they
\* were, and a request of the first Shedder is counted and decided from the
\* first Shedder's own increments and decrements, whatever load the second
\* carries.
C19_TwoSheddersDoNotInterfere ==
    [][/\ (OwnStep \/ Answered("IsOverloaded")) => other' = other
       /\ (OtherStep \/ Answered("other.IsOverloaded")) =>
              /\ inflight' = inflight
              /\ s' = s
              /\ cfg' = cfg
       /\ other'.hardLimit = other.hardLimit
       /\ other'.inflight = other'.entered - other'.left
       /\ \A r \in Reqs :
              (hist[r] = << >> /\ hist'[r] # << >>) =>
                  /\ current'[r] =
                         Total("increment") - Total("decrement") + 1
                  /\ outcome'[r] = "hard" <=>
                         Total("increment") - Total("decrement") + 1
                             > s.hardLimit]_vars

\* C19 witness: the second Shedder is over its hard limit with two requests
\* in flight while the first Shedder, full with its own requests, accepted a
\* request at exactly its hard limit and answered a query "false".
C19_Witness ==
    /\ other.inflight = 2
    /\ other.inflight > other.hardLimit
    /\ inflight = s.hardLimit
    /\ \E r \in Reqs : /\ outcome[r] = "accepted"
                       /\ current[r] = s.hardLimit
    /\ probe.kind = "IsOverloaded"
    /\ probe.result = "false"

\* The next request to arrive.
NextToArrive(r) == pc[r] = "idle" /\ \A q \in Reqs : q < r => pc[q] # "idle"

\* C20: rejection never waits for capacity.  Nothing is scheduled fairly, so
\* an accepted handler may stay in next.ServeHTTP forever; whatever the
\* other requests are doing, a request that arrives over the hard limit can
\* be rejected at once, a rejected request has already been through
\* Shedder.shed (its response written, or its notifier panicked), and its
\* release is a step it can take on its own.
C20_RejectionNeverWaitsForCapacity ==
    \A r \in Reqs :
        /\ (NextToArrive(r) /\ OverHardLimit(increment(inflight))) =>
               ENABLED RejectHard(r)
        /\ Rejected(r) =>
               /\ Occ(hist[r], "write") = 1 \/ NotifierPanicked(r)
               /\ ~Finished(r) => ENABLED Release(r)
               /\ Finished(r) => Occ(hist[r], "decrement") = 1

\* C20 witness: every accepted request is still inside the downstream
\* handler, one rejected request has its response and its release behind
\* it, and another, over the hard limit too, has its response written and
\* its release ahead.
C20_Witness ==
    /\ \E r \in Reqs : outcome[r] = "accepted"
    /\ \A r \in Reqs : outcome[r] = "accepted" => pc[r] = "serving"
    /\ \E r \in Reqs : /\ Rejected(r)
                       /\ pc[r] = "done"
                       /\ written[r].status = 503
    /\ \E r \in Reqs : /\ Rejected(r)
                       /\ pc[r] = "returning"
                       /\ written[r].status = 503
                       /\ inflight > s.hardLimit

\* No request is between its increment and its decrement.
Quiet == \A r \in Reqs : pc[r] = "idle" \/ Finished(r)

\* C21: when every downstream handler that is entered terminates, by
\* returning or by panicking, the counter is eventually 0 and stays 0;
\* at most NumReqs requests arrive, accepted, hard-rejected or
\* soft-rejected in any mix, and the counter leaves 0 only by the arrival
\* of a new request.
C21_CounterReturnsToZero ==
    /\ <>[](inflight = 0)
    /\ [](Quiet => inflight = 0)
    /\ [][(inflight = 0 /\ inflight' # 0) =>
              \E r \in Reqs : pc[r] = "idle" /\ pc'[r] # "idle"]_vars

\* C21 witness: an accepted, a soft-rejected and a hard-rejected request
\* have all left and the counter is back at 0.
C21_Witness ==
    /\ \A r \in Reqs : Finished(r)
    /\ \E r \in Reqs : outcome[r] = "accepted"
    /\ \E r \in Reqs : outcome[r] = "soft"
    /\ \E r \in Reqs : outcome[r] = "hard"
    /\ inflight = 0

\* The requests rejected for the hard limit that have incremented and not
\* yet decremented.
HardRejectedInFlight ==
    {r \in Reqs : outcome[r] = "hard" /\ pc[r] \in {"returning", "unwinding"}}

\* C22: the counter exceeds the hard limit by at most the number of
\* requests that are being rejected for the hard limit and have not yet
\* released, so the excess is bounded by the requests racing at the
\* threshold.
C22_ExcessBoundedByHardRejectedInFlight ==
    inflight <= s.hardLimit + Cardinality(HardRejectedInFlight)

\* C22 witness: two requests rejected for the hard limit are still in
\* flight and the counter stands two above the hard limit.
C22_Witness ==
    /\ Cardinality(HardRejectedInFlight) = 2
    /\ inflight = s.hardLimit + 2

\* The names of the five reads.
ReadKinds == {"Inflight", "IsOverloaded", "IsSoftOverloaded", "ready", "health"}

\* C23: Inflight(), IsOverloaded(), IsSoftOverloaded(), the readiness
\* handler and the liveness handler are pure reads.  A step that answers
\* one of them leaves the counter, the limits, the configuration and every
\* request as they were, and a request entering at any time is counted and
\* decided from the increments and decrements of requests alone, however
\* many reads were answered in between.
C23_ReadsArePure ==
    [][/\ (probe' # probe) =>
              /\ probe'.kind \in ReadKinds
              /\ UNCHANGED <<inflight, s, cfg, pc, current, outcome, hist,
                             notified, written>>
       /\ \A r \in Reqs :
              (hist[r] = << >> /\ hist'[r] # << >>) =>
                  /\ current'[r] =
                         Total("increment") - Total("decrement") + 1
                  /\ outcome'[r] = "hard" <=>
                         Total("increment") - Total("decrement") + 1
                             > s.hardLimit]_vars

\* C23 witness: Inflight() answered hardLimit while that many requests were
\* in flight, and the request that arrived next got hardLimit + 1 from its
\* increment and was rejected for the hard limit.
C23_Witness ==
    /\ probe.kind = "Inflight"
    /\ probe.at = s.hardLimit
    /\ Total("increment") = s.hardLimit + 1
    /\ Total("decrement") = 0
    /\ inflight = s.hardLimit + 1
    /\ \E r \in Reqs : /\ outcome[r] = "hard"
                       /\ current[r] = s.hardLimit + 1

\* C24: the hard-limit check takes precedence over the soft tier.  The
\* decider is consulted at most once per request, and only for a request
\* whose increment returned n with softLimit > 0 and softLimit < n <=
\* hardLimit; a request with n > hardLimit is rejected with reason HardLimit
\* and its decider is never called; with softLimit <= 0 or n <= softLimit
\* the decider is never called.
C24_HardCheckPrecedesSoftTier ==
    \A r \in Reqs :
        /\ Occ(hist[r], "decider") <= 1
        /\ Occ(hist[r], "decider") = 1 <=> policy[r] # "unasked"
        /\ policy[r] # "unasked" =>
               /\ s.softLimit > 0
               /\ s.softLimit < current[r]
               /\ current[r] <= s.hardLimit
        /\ (outcome[r] # "none" /\ current[r] > s.hardLimit) =>
               /\ outcome[r] = "hard"
               /\ policy[r] = "unasked"
               /\ notified[r] \in {<< >>, <<ShedReasonHardLimit>>}

\* C24 witness: with a decider set and a positive soft limit, one request
\* in the soft band had its decider called once and was shed by it, the
\* next got a count over the hard limit and was rejected for the hard limit
\* without its decider being called, and the first request, at the soft
\* limit, was accepted unasked.
C24_Witness ==
    /\ s.shedDecider # Nil
    /\ s.softLimit > 0
    /\ \E r \in Reqs : /\ current[r] = s.softLimit
                       /\ outcome[r] = "accepted"
                       /\ policy[r] = "unasked"
    /\ \E r \in Reqs : /\ policy[r] = "true"
                       /\ Occ(hist[r], "decider") = 1
                       /\ outcome[r] = "soft"
    /\ \E r \in Reqs : /\ current[r] > s.hardLimit
                       /\ outcome[r] = "hard"
                       /\ policy[r] = "unasked"

\* C25: with the counter moved only by requests entering and leaving the
\* Middleware, it is never negative: a request decrements only after its
\* own increment, and only once.
C25_CounterNeverNegative ==
    /\ inflight >= 0
    /\ \A r \in Reqs :
           Occ(hist[r], "decrement") >= 1 =>
               /\ Pos(hist[r], "increment") >= 1
               /\ Pos(hist[r], "increment") < Pos(hist[r], "decrement")

\* C25 witness: every request has entered and left, some of them rejected,
\* and the counter stands at 0, its lowest value.
C25_Witness ==
    /\ Total("decrement") = NumReqs
    /\ \E r \in Reqs : Rejected(r)
    /\ \E r \in Reqs : outcome[r] = "accepted" /\ pc[r] = "panicked"
    /\ inflight = 0

\* The requests that hold a unit of the counter: between their increment
\* and their deferred decrement, rejected ones included.
Holding == {r \in Reqs : pc[r] \in {"serving", "returning", "unwinding"}}

\* C26: a rejected request holds one unit of the counter from its increment
\* until its deferred decrement.  The counter is the number of requests
\* between increment and decrement, rejected or not, and a rejection for
\* the hard limit follows from the count its increment returned, not from
\* the number of requests the downstream handler is serving.
C26_RejectedHoldsUnitUntilRelease ==
    /\ inflight = Cardinality(Holding)
    /\ \A r \in Reqs :
           /\ outcome[r] = "hard" => current[r] > s.hardLimit
           /\ (Rejected(r) /\ ~Finished(r)) => r \in Holding

\* C26 witness: hardLimit is 1; the first request was accepted, the second
\* was rejected and has not released yet, and the third got 2 from its
\* increment and was rejected for the hard limit.  The second still holds
\* its unit, so the first had already left when the third incremented:
\* nothing was being served when the third was rejected.
C26_Witness ==
    /\ s.hardLimit = 1
    /\ outcome[1] = "accepted"
    /\ outcome[2] = "hard"
    /\ pc[2] = "returning"
    /\ outcome[3] = "hard"
    /\ current[3] = 2
    /\ Serving = {}

\* C27: overload clears without any served request finishing.  With every
\* accepted handler blocked forever, whenever IsOverloaded() would answer
\* true the releases of the rejected requests bring the counter back to
\* hardLimit or below, where the readiness handler answers 200; and once
\* no more requests arrive it stays there.
C27_OverloadClearsByRejectedReleases ==
    /\ IsOverloaded(inflight) ~>
           (~IsOverloaded(inflight) /\ ReadyStatus(inflight) = StatusOK)
    /\ <>[](ReadyStatus(inflight) = StatusOK)
    /\ [](IsOverloaded(inflight) => HardRejectedInFlight # {})

\* C27 witness: hardLimit requests are inside the downstream handler, none
\* of them has finished, the requests rejected for the hard limit have all
\* released and the counter is back at the hard limit.
C27_Witness ==
    /\ Cardinality(Serving) = s.hardLimit
    /\ \A r \in Reqs : outcome[r] = "accepted" => pc[r] = "serving"
    /\ \E r \in Reqs : outcome[r] = "hard"
    /\ \A r \in Reqs : outcome[r] = "hard" => pc[r] = "done"
    /\ inflight = s.hardLimit
    /\ ~IsOverloaded(inflight)

\* C28: New accepts a soft limit at or above the hard limit, and the soft
\* tier of such a Shedder is inert: no request is rejected with reason
\* SoftLimit, no decider is called, and IsSoftOverloaded() is false at
\* every value the counter takes.
C28_SoftLimitAtOrAboveHardLimitIsInert ==
    (ctor = "built" /\ s.softLimit >= s.hardLimit) =>
        /\ \A r \in Reqs : /\ outcome[r] # "soft"
                           /\ policy[r] = "unasked"
                           /\ ShedReasonSoftLimit \notin
                                  {notified[r][i] : i \in DOMAIN notified[r]}
        /\ ~IsSoftOverloaded(inflight)

\* C28 witness: a Shedder with a decider and softLimit >= hardLimit > 0 has
\* its counter above the soft limit, and the request that took it there
\* was rejected for the hard limit without its decider being called.
C28_Witness ==
    /\ ctor = "built"
    /\ s.softLimit >= s.hardLimit
    /\ s.shedDecider # Nil
    /\ inflight > s.softLimit
    /\ \E r \in Reqs : /\ current[r] > s.softLimit
                       /\ outcome[r] = "hard"
                       /\ policy[r] = "unasked"

\* C29: when the notifier panics while a request is being shed, Shedder.shed
\* has written neither headers nor status for that request, and the
\* request's deferred decrement still runs, exactly once: it is pending
\* while the panic unwinds and done once the request has left.
C29_NotifierPanicStillReleasesOnce ==
    \A r \in Reqs :
        NotifierPanicked(r) =>
            /\ Rejected(r)
            /\ written[r] = NoResponse
            /\ Occ(hist[r], "write") = 0
            /\ pc[r] \in {"unwinding", "panicked"}
            /\ pc[r] = "unwinding" =>
                   /\ Occ(hist[r], "decrement") = 0
                   /\ ENABLED Release(r)
            /\ pc[r] = "panicked" => Occ(hist[r], "decrement") = 1

\* C29 witness: the notifier panicked for a rejected request, the request
\* has left with one decrement and no response from the gate, and the
\* counter is back at 0.
C29_Witness ==
    /\ \E r \in Reqs : /\ NotifierPanicked(r)
                       /\ pc[r] = "panicked"
                       /\ Occ(hist[r], "decrement") = 1
                       /\ written[r] = NoResponse
    /\ \A r \in Reqs : pc[r] # "idle" => Finished(r)
    /\ inflight = 0

\* C30: a readiness response is consistent in itself under concurrent
\* changes of the counter.  The handler loads the counter once, so the
\* value printed in the body is above hardLimit exactly when the status is
\* 503 (and the body says "not ready"), and at most hardLimit exactly when
\* the status is 200 (and the body says "ready").
C30_ReadyResponseConsistent ==
    probe.kind = "ready.written" =>
        /\ probe.status \in {StatusOK, StatusServiceUnavailable}
        /\ probe.at > s.hardLimit <=> probe.status = StatusServiceUnavailable
        /\ probe.at <= s.hardLimit <=> probe.status = StatusOK
        /\ probe.at > s.hardLimit <=> probe.body = "not ready"

\* C30 witness: the counter moved across the hard limit between the
\* handler's load and its write; the response says 503 with the value it
\* loaded, above the hard limit, while the counter is within the limit.
C30_Witness ==
    /\ probe.kind = "ready.written"
    /\ probe.result = "changed"
    /\ probe.status = StatusServiceUnavailable
    /\ probe.at > s.hardLimit
    /\ inflight <= s.hardLimit

====
